---------------------------- MODULE Spec2Model ----------------------------
(***************************************************************************)
(* DeepSeekChatOpenAI (src/deepseek_chat_openai.py): a chat client whose   *)
(* API base address is forced to the DeepSeek endpoint, and the function   *)
(* returned by with_structured_output, which builds a prompt from a        *)
(* pydantic model class, invokes the client once, decodes the response as  *)
(* JSON and populates the model class from the decoded data.               *)
(*                                                                         *)
(* Text is modelled as a sequence of lexical tokens, Python values as      *)
(* tagged records, and json.loads as a recursive-descent parser over the   *)
(* tokens.                                                                 *)
(***************************************************************************)
EXTENDS Integers, Sequences, FiniteSets, TLC

VARIABLES
    kwargs,        \* keyword arguments the caller passed to the constructor
    config,        \* keyword arguments handed to ChatOpenAI.__init__
    apc,           \* adapter position: "new", "ready", "bound"
    model_class,   \* closure variable of with_structured_output
    calls,         \* ids of the calls of structured_output_chain that may run
    texts,         \* response texts the remote model may answer with
    pc,            \* per call: position in structured_output_chain
    input_prompt,  \* per call: argument of structured_output_chain
    properties,    \* per call: local `properties`
    prompt,        \* per call: local `prompt`
    response,      \* per call: local `response`
    response_json, \* per call: local `response_json`
    result,        \* per call: value returned to the caller
    error,         \* per call: exception that ended the call
    invoked,       \* per call: number of self.invoke calls made
    returned,      \* per call: what self.invoke gave this call (history)
    trail          \* per call: the store_as_pydantic invocations (history)

vars == <<kwargs, config, apc, model_class, calls, texts, pc, input_prompt,
          properties, prompt, response, response_json, result, error, invoked, returned,
          trail>>

(***************************************************************************)
(* Bounds.                                                                 *)
(***************************************************************************)
\* number of interleaved calls of the returned function (SpecPar)
NumCalls == 2
\* how many times an object text is wrapped again into a JSON string
MaxWrap == 2

(***************************************************************************)
(* Text: sequences of tokens.  A string token carries its content, which   *)
(* is text again (it may or may not be JSON text).                         *)
(***************************************************************************)
P(p) == [k |-> "punct", p |-> p]
W(w) == [k |-> "word", w |-> w]
N(n) == [k |-> "num", n |-> n]
S(s) == [k |-> "str", s |-> s]
EOF == [k |-> "eof"]

Tok(t, i) == IF i \in 1..Len(t) THEN t[i] ELSE EOF
IsPunct(tok, p) == tok.k = "punct" /\ tok.p = p

(***************************************************************************)
(* Python values.                                                          *)
(***************************************************************************)
None == [t |-> "none"]
PyInt(n) == [t |-> "int", n |-> n]
PyFloat(f) == [t |-> "float", f |-> f]
PyBool(b) == [t |-> "bool", b |-> b]
PyStr(s) == [t |-> "str", s |-> s]
PyList(l) == [t |-> "list", l |-> l]
PyDict(d) == [t |-> "dict", d |-> d]
\* the Python str of an identifier such as a field name
Name(n) == <<W(n)>>

(***************************************************************************)
(* json.loads.  A parse step returns [ok, v, j]: the value and the index   *)
(* of the first token after it.                                            *)
(***************************************************************************)
Bad == [ok |-> FALSE]
Good(v, j) == [ok |-> TRUE, v |-> v, j |-> j]

RECURSIVE ParseValue(_, _)
RECURSIVE ParsePairs(_, _, _)
RECURSIVE ParseElements(_, _, _)

\* members of an object after "{" or ",": "key" : value, then "," or "}"
ParsePairs(t, i, acc) ==
    IF Tok(t, i).k # "str" \/ ~IsPunct(Tok(t, i + 1), ":") THEN Bad
    ELSE LET r == ParseValue(t, i + 2) IN
         IF ~r.ok THEN Bad
         ELSE LET acc2 == (Tok(t, i).s :> r.v) @@ acc IN
              IF IsPunct(Tok(t, r.j), ",") THEN ParsePairs(t, r.j + 1, acc2)
              ELSE IF IsPunct(Tok(t, r.j), "}") THEN Good(PyDict(acc2), r.j + 1)
              ELSE Bad

\* elements of an array after "[" or ",": value, then "," or "]"
ParseElements(t, i, acc) ==
    LET r == ParseValue(t, i) IN
    IF ~r.ok THEN Bad
    ELSE LET acc2 == Append(acc, r.v) IN
         IF IsPunct(Tok(t, r.j), ",") THEN ParseElements(t, r.j + 1, acc2)
         ELSE IF IsPunct(Tok(t, r.j), "]") THEN Good(PyList(acc2), r.j + 1)
         ELSE Bad

ParseValue(t, i) ==
    LET tok == Tok(t, i) IN
    CASE tok.k = "str" -> Good(PyStr(tok.s), i + 1)
      [] tok.k = "num" -> Good(PyInt(tok.n), i + 1)
      [] tok.k = "word" ->
            CASE tok.w = "true" -> Good(PyBool(TRUE), i + 1)
              [] tok.w = "false" -> Good(PyBool(FALSE), i + 1)
              [] tok.w = "null" -> Good(None, i + 1)
              [] tok.w \in {"NaN", "Infinity"} -> Good(PyFloat(tok.w), i + 1)
              [] OTHER -> Bad
      [] tok.k = "punct" ->
            CASE tok.p = "{" ->
                    IF IsPunct(Tok(t, i + 1), "}")
                    THEN Good(PyDict(<<>>), i + 2)
                    ELSE ParsePairs(t, i + 1, <<>>)
              [] tok.p = "[" ->
                    IF IsPunct(Tok(t, i + 1), "]")
                    THEN Good(PyList(<<>>), i + 2)
                    ELSE ParseElements(t, i + 1, <<>>)
              [] OTHER -> Bad
      [] OTHER -> Bad

\* json.loads(s) for a str s: the whole text must be one value
JsonLoads(t) ==
    LET r == ParseValue(t, 1) IN
    IF r.ok /\ r.j = Len(t) + 1 THEN [ok |-> TRUE, v |-> r.v] ELSE Bad

(***************************************************************************)
(* Target shapes: pydantic model classes.  A field carries its name, its   *)
(* annotation (a primitive type or a model class), the description and     *)
(* json_schema_extra of its FieldInfo, whether it is required and its      *)
(* default.  Fields are kept in declaration order.                         *)
(***************************************************************************)
Desc(s) == [t |-> "str", text |-> s]
Extra(d) == [t |-> "dict", d |-> d]

Fld(n, ty, de, ex, req, dflt) ==
    [name |-> n, type |-> ty, description |-> de, json_schema_extra |-> ex,
     required |-> req, default |-> dflt]

\* class Geo(BaseModel): lat: int
Geo == <<Fld("lat", "int", Desc("latitude"), None, TRUE, None)>>

\* class Address(BaseModel): city: str; geo: Geo = None
Address ==
    <<Fld("city", "str", Desc("city name"), None, TRUE, None),
      Fld("geo", "Geo", None, None, FALSE, None)>>

\* class Person(BaseModel): name: str; age: int = None; address: Address = None
Person ==
    <<Fld("name", "str", Desc("full name"), None, TRUE, None),
      Fld("age", "int", Desc("age in years"), Extra(<<>>), FALSE, None),
      Fld("address", "Address", Desc("home address"), None, FALSE, None)>>

\* class Ticket(BaseModel): status: str (enum); priority: int = 0; note: str = ""
Ticket ==
    <<Fld("status", "str", Desc("ticket status"),
          Extra("enum" :> <<"ok", "fail">>), TRUE, None),
      Fld("priority", "int", None, Extra("examples" :> <<"1">>), FALSE,
          PyInt(0)),
      Fld("note", "str", Desc(""), Extra("enum" :> <<>>), FALSE, PyStr(<<>>))>>

\* class Empty(BaseModel): pass
Empty == <<>>

ModelClasses == {"Person", "Address", "Geo", "Ticket", "Empty"}

Shapes ==
    [c \in ModelClasses |->
        CASE c = "Person" -> Person
          [] c = "Address" -> Address
          [] c = "Geo" -> Geo
          [] c = "Ticket" -> Ticket
          [] c = "Empty" -> Empty]

\* cls.model_fields.items(): the fields in declaration order
ModelFields(cls) == Shapes[cls]

\* get_type_hints(cls).items(): the annotated names with their types, in
\* declaration order
GetTypeHints(cls) ==
    [i \in 1..Len(Shapes[cls]) |->
        [name |-> Shapes[cls][i].name, type |-> Shapes[cls][i].type]]

\* fault: no annotation is taken for a model class, nothing recurses
NeverModelClass(field_type) == FALSE

\* isinstance(field_type, type) and issubclass(field_type, BaseModel)
IsModelClass(field_type) == field_type \in ModelClasses

(***************************************************************************)
(* get_model_properties.                                                   *)
(***************************************************************************)
RECURSIVE ReprItems(_, _)
ReprItems(l, i) ==
    IF i > Len(l) THEN ""
    ELSE (IF i > 1 THEN ", " ELSE "") \o "'" \o l[i] \o "'" \o ReprItems(l, i + 1)

\* str() of a Python list of strings, as an f-string renders it
ReprList(l) == "[" \o ReprItems(l, 1) \o "]"

\* a Python object used as a condition
Truthy(v) ==
    CASE v.t = "none" -> FALSE
      [] v.t = "str" -> v.text # ""
      [] v.t = "dict" -> DOMAIN v.d # {}

\* description = field.description or field_name
Description(field) ==
    IF Truthy(field.description) THEN field.description.text ELSE field.name

\* if field.json_schema_extra and 'enum' in field.json_schema_extra
HasEnum(field) ==
    /\ Truthy(field.json_schema_extra)
    /\ "enum" \in DOMAIN field.json_schema_extra.d

\* fault: the enum constraint is not rendered
PropertyLineNoEnum(field) == field.name \o ": " \o Description(field)

\* one element of `properties`
PropertyLine(field) ==
    LET description ==
            IF HasEnum(field)
            THEN Description(field) \o " (must be one of: "
                 \o ReprList(field.json_schema_extra.d["enum"]) \o ")"
            ELSE Description(field)
    IN field.name \o ": " \o description

RECURSIVE JoinLines(_, _)
\* '\n'.join(lines[i..])
JoinLines(lines, i) ==
    IF i > Len(lines) THEN ""
    ELSE (IF i > 1 THEN "\n" ELSE "") \o lines[i] \o JoinLines(lines, i + 1)

RECURSIVE PropertiesLoop(_, _, _)
\* the for loop over cls.model_fields.items(), from item i on
PropertiesLoop(items, i, lines) ==
    IF i > Len(items) THEN lines
    ELSE PropertiesLoop(items, i + 1, Append(lines, PropertyLine(items[i])))

GetModelProperties(cls) == JoinLines(PropertiesLoop(ModelFields(cls), 1, <<>>), 1)

(***************************************************************************)
(* The call of cls with parsed_data as keywords: the construction of a     *)
(* pydantic model.  A keyword is validated against the field's annotation  *)
(* (lax mode: an int field takes an int, a bool or a numeric string); a    *)
(* field without a keyword takes its default and stays out of              *)
(* model_fields_set; a required field without a keyword is a               *)
(* ValidationError.                                                        *)
(***************************************************************************)
Invalid == [ok |-> FALSE]
Valid(v) == [ok |-> TRUE, v |-> v]

ValidateField(type, v) ==
    CASE type = "str" -> IF v.t = "str" THEN Valid(v) ELSE Invalid
      [] type = "int" ->
            CASE v.t = "int" -> Valid(v)
              [] v.t = "bool" -> Valid(PyInt(IF v.b THEN 1 ELSE 0))
              [] v.t = "str" ->
                    IF Len(v.s) = 1 /\ v.s[1].k = "num"
                    THEN Valid(PyInt(v.s[1].n))
                    ELSE Invalid
              [] OTHER -> Invalid
      [] OTHER -> IF v.t = "model" /\ v.cls = type THEN Valid(v) ELSE Invalid

Instance(cls, values, fields_set) ==
    [t |-> "model", cls |-> cls, values |-> values, fields_set |-> fields_set]

\* fault: a construction that does not validate (model_construct): every
\* field without a keyword takes its default, required or not
ConstructLenient(cls, parsed_data) ==
    LET fields == ModelFields(cls)
        names == {fields[i].name : i \in 1..Len(fields)}
        Index(n) == CHOOSE i \in 1..Len(fields) : fields[i].name = n
    IN [ok |-> TRUE,
        obj |-> Instance(cls,
                   [n \in names |->
                       IF n \in DOMAIN parsed_data THEN parsed_data[n]
                       ELSE fields[Index(n)].default],
                   names \cap DOMAIN parsed_data)]

Construct(cls, parsed_data) ==
    LET fields == ModelFields(cls)
        given == {i \in 1..Len(fields) : fields[i].name \in DOMAIN parsed_data}
        missing == {i \in 1..Len(fields) : fields[i].required /\ i \notin given}
        checked == [i \in given |->
                       ValidateField(fields[i].type, parsed_data[fields[i].name])]
        names == {fields[i].name : i \in 1..Len(fields)}
        Index(n) == CHOOSE i \in 1..Len(fields) : fields[i].name = n
    IN IF missing # {} \/ \E i \in given : ~checked[i].ok
       THEN [ok |-> FALSE, err |-> "ValidationError"]
       ELSE [ok |-> TRUE,
             obj |-> Instance(cls,
                        [n \in names |->
                            IF Index(n) \in given THEN checked[Index(n)].v
                            ELSE fields[Index(n)].default],
                        {fields[i].name : i \in given})]

(***************************************************************************)
(* store_as_pydantic.  The result is [ok, obj, log] or [ok, err, log]; log *)
(* lists, for every invocation whose loop ran to its end, the class, the   *)
(* data it read, the parsed_data it collected and what the construction    *)
(* made of it.                                                             *)
(***************************************************************************)
\* data.get(field_name) on a dict
DictGet(data, field_name) ==
    IF Name(field_name) \in DOMAIN data.d THEN data.d[Name(field_name)] ELSE None

\* whether data has the attribute `get`
HasGet(data) == data.t = "dict"

\* fault: nulls are collected like any other value
AlwaysCollect(field_value) == TRUE

\* if field_value is not None
IsNotNone(field_value) == field_value.t # "none"

\* fault: a numeric string is converted on the way into parsed_data
CoerceValue(field_value) ==
    IF field_value.t = "str" /\ Len(field_value.s) = 1 /\ field_value.s[1].k = "num"
    THEN PyInt(field_value.s[1].n)
    ELSE field_value

\* parsed_data[field_name] = field_value
CopyValue(field_value) == field_value

Entry(cls, data, parsed_data, made) ==
    [cls |-> cls, data |-> data, parsed_data |-> parsed_data, made |-> made]

\* fault: a string is decoded again for as long as it decodes to a string
LoadContentDeep(content) ==
    IF content.t # "str" THEN [ok |-> TRUE, v |-> content]
    ELSE LET once == JsonLoads(content.s) IN
         IF once.ok /\ once.v.t = "str" THEN JsonLoads(once.v.s) ELSE once

\* if isinstance(content, str): data = json.loads(content) else: data = content
LoadContent(content) ==
    IF content.t = "str" THEN JsonLoads(content.s)
    ELSE [ok |-> TRUE, v |-> content]

RECURSIVE StoreAsPydantic(_, _)
RECURSIVE Populate(_, _, _, _, _)

\* the for loop over field_types.items(), from item i on, then the return
Populate(data, cls, i, parsed_data, log) ==
    LET field_types == GetTypeHints(cls) IN
    IF i > Len(field_types)
    THEN LET made == Construct(cls, parsed_data)
             log2 == Append(log, Entry(cls, data, parsed_data, made))
         IN IF made.ok
            THEN [ok |-> TRUE, obj |-> made.obj, log |-> log2]
            ELSE [ok |-> FALSE, err |-> made.err, log |-> log2]
    ELSE IF ~HasGet(data)
    THEN [ok |-> FALSE, err |-> "AttributeError", log |-> log]
    ELSE LET field_name == field_types[i].name
             field_type == field_types[i].type
             field_value == DictGet(data, field_name)
         IN IF ~IsNotNone(field_value)
            THEN Populate(data, cls, i + 1, parsed_data, log)
            ELSE IF IsModelClass(field_type)
            THEN LET sub == StoreAsPydantic(field_value, field_type) IN
                 IF sub.ok
                 THEN Populate(data, cls, i + 1,
                               (field_name :> sub.obj) @@ parsed_data,
                               log \o sub.log)
                 ELSE [ok |-> FALSE, err |-> sub.err, log |-> log \o sub.log]
            ELSE Populate(data, cls, i + 1,
                          (field_name :> CopyValue(field_value)) @@ parsed_data,
                          log)

StoreAsPydantic(content, cls) ==
    LET loaded == LoadContent(content) IN
    IF loaded.ok THEN Populate(loaded.v, cls, 1, <<>>, <<>>)
    ELSE [ok |-> FALSE, err |-> "JSONDecodeError", log |-> <<>>]

(***************************************************************************)
(* The environment: constructor arguments, input texts, and the texts the  *)
(* remote model may answer with.                                           *)
(***************************************************************************)
DeepSeekBase == "https://api.deepseek.com"

KwargsSet ==
    {("model" :> "deepseek-chat"),
     ("model" :> "deepseek-chat") @@ ("openai_api_base" :> "https://api.openai.com/v1"),
     ("openai_api_base" :> "http://localhost:8000") @@ ("temperature" :> "0"),
     ("openai_api_base" :> DeepSeekBase)}

InputTexts == {"Alice, 30, lives in Paris", "ticket 7 failed"}

LB == P("{")
RB == P("}")
LK == P("[")
RK == P("]")
COLON == P(":")
COMMA == P(",")
Key(n) == S(Name(n))
Str(w) == S(<<W(w)>>)

GeoText == <<LB, Key("lat"), COLON, N(48), RB>>
AddressText ==
    <<LB, Key("city"), COLON, Str("Paris"), COMMA, Key("geo"), COLON>>
    \o GeoText \o <<RB>>
NameAlice == <<Key("name"), COLON, Str("Alice")>>
PersonFull ==
    <<LB>> \o NameAlice \o <<COMMA, Key("age"), COLON, N(30), COMMA,
                              Key("address"), COLON>> \o AddressText \o <<RB>>
PersonNoAge == <<LB>> \o NameAlice \o <<RB>>
TicketOk == <<LB, Key("status"), COLON, Str("ok"), RB>>
\* explicit nulls for the fields that have defaults
TicketNulls ==
    <<LB, Key("status"), COLON, Str("ok"), COMMA, Key("priority"), COLON,
      W("null"), COMMA, Key("note"), COLON, W("null"), RB>>
\* the required name absent
PersonNoName == <<LB, Key("age"), COLON, N(30), RB>>
\* a key that is no field of any shape
PersonNickname ==
    <<LB, Key("nickname"), COLON, Str("Al"), COMMA>> \o NameAlice \o <<RB>>
\* the keys in another order than the fields are declared
PersonReordered ==
    <<LB, Key("address"), COLON>> \o AddressText
    \o <<COMMA, Key("age"), COLON, N(30), COMMA>> \o NameAlice \o <<RB>>
\* a numeric string for the int field
PersonStringAge ==
    <<LB>> \o NameAlice \o <<COMMA, Key("age"), COLON, S(<<N(30)>>), RB>>
\* a number where the nested object belongs, and no name
AddressNumber == <<LB, Key("address"), COLON, N(5), RB>>

\* texts that are one JSON object
ObjectTexts ==
    {PersonFull, PersonNoAge, TicketOk, AddressText, GeoText,
     <<LB, RB>>,
     \* null for optional fields
     <<LB>> \o NameAlice \o <<COMMA, Key("age"), COLON, W("null"), COMMA,
                              Key("address"), COLON, W("null"), RB>>,
     \* required field absent, required field null
     PersonNoName,
     <<LB, Key("name"), COLON, W("null"), COMMA, Key("age"), COLON, N(30), RB>>,
     \* a key that is no field; keys out of declaration order; a key twice
     PersonNickname,
     PersonReordered,
     <<LB>> \o NameAlice \o <<COMMA, Key("name"), COLON, Str("Bob"), RB>>,
     \* values of another type than the annotation
     PersonStringAge,
     <<LB>> \o NameAlice \o <<COMMA, Key("age"), COLON, Str("abc"), RB>>,
     <<LB, Key("name"), COLON, N(7), COMMA, Key("age"), COLON, W("false"), RB>>,
     \* nested value: JSON text in a string, a number, prose, no city, null geo
     <<LB>> \o NameAlice \o <<COMMA, Key("address"), COLON, S(AddressText), RB>>,
     <<LB>> \o NameAlice \o <<COMMA, Key("address"), COLON, N(5), RB>>,
     AddressNumber,
     <<LB>> \o NameAlice \o <<COMMA, Key("address"), COLON, Str("Paris"), RB>>,
     <<LB>> \o NameAlice \o <<COMMA, Key("address"), COLON, LB, Key("geo"), COLON>>
        \o GeoText \o <<RB, RB>>,
     <<LB>> \o NameAlice \o <<COMMA, Key("address"), COLON, LB, Key("city"), COLON,
                              Str("Paris"), COMMA, Key("geo"), COLON, W("null"),
                              RB, RB>>,
     <<LB, Key("city"), COLON, Str("Paris"), COMMA, Key("geo"), COLON, LK, RK, RB>>,
     \* tickets: all fields, nulls, a status outside the enum
     <<LB, Key("status"), COLON, Str("fail"), COMMA, Key("priority"), COLON, N(2),
       COMMA, Key("note"), COLON, Str("urgent"), RB>>,
     TicketNulls,
     <<LB, Key("status"), COLON, Str("maybe"), COMMA, Key("priority"), COLON, N(0),
       COMMA, Key("note"), COLON, S(<<>>), RB>>}

\* texts that are JSON, but no object: array, number, literals, strings
ScalarTexts ==
    {<<LK>> \o PersonNoAge \o <<RK>>, <<LK, RK>>, <<N(30)>>, <<W("true")>>,
     <<W("null")>>, <<W("NaN")>>, <<Str("Alice")>>, <<S(<<>>)>>,
     <<S(<<LK, N(1), RK>>)>>, <<S(<<W("null")>>)>>}

RECURSIVE Wrapped(_, _)
\* text t dumped as a JSON string k times over
Wrapped(t, k) == IF k = 0 THEN t ELSE <<S(Wrapped(t, k - 1))>>

WrappedTexts ==
    {Wrapped(t, k) : t \in {PersonFull, TicketOk, <<LB, RB>>}, k \in 1..MaxWrap}

\* texts that are not JSON: prose around the object, a code fence, a cut
\* object, a trailing comma, an unquoted key, nothing
InvalidTexts ==
    {<<W("Here"), W("is"), W("the"), W("JSON"), COLON>> \o PersonNoAge,
     PersonNoAge \o <<W("Done")>>,
     <<W("FENCE"), W("json")>> \o PersonFull \o <<W("FENCE")>>,
     SubSeq(PersonFull, 1, Len(PersonFull) - 1),
     <<LB>> \o NameAlice \o <<COMMA, RB>>,
     <<LB, W("name"), COLON, Str("Alice"), RB>>,
     <<LB>> \o NameAlice \o <<RB, RB>>,
     <<LK, N(1), COMMA, RK>>,
     <<W("Alice")>>,
     <<>>}

ResponseTexts == ObjectTexts \cup ScalarTexts \cup WrappedTexts \cup InvalidTexts

\* the texts of the runs with several calls
FewTexts == {PersonFull, TicketOk, <<N(30)>>, <<W("Alice")>>}

(***************************************************************************)
(* The state machine.                                                      *)
(***************************************************************************)
CallIds == 1..NumCalls
Unset == [t |-> "unset"]
Message(content) == [t |-> "message", content |-> content]
Raised(err) == [t |-> "raised", err |-> err]

InitWith(ks, cs, ts) ==
    /\ kwargs \in ks
    /\ config = <<>>
    /\ apc = "new"
    /\ model_class = ""
    /\ calls = cs
    /\ texts = ts
    /\ pc = [c \in CallIds |-> "idle"]
    /\ input_prompt = [c \in CallIds |-> ""]
    /\ properties = [c \in CallIds |-> ""]
    /\ prompt = [c \in CallIds |-> ""]
    /\ response = [c \in CallIds |-> Unset]
    /\ response_json = [c \in CallIds |-> Unset]
    /\ result = [c \in CallIds |-> Unset]
    /\ error = [c \in CallIds |-> ""]
    /\ invoked = [c \in CallIds |-> 0]
    /\ returned = [c \in CallIds |-> Unset]
    /\ trail = [c \in CallIds |-> <<>>]

\* one caller, one call at a time, every response text
Init == InitWith(KwargsSet, {1}, ResponseTexts)

\* several callers of the same returned function
InitPar == InitWith({"model" :> "deepseek-chat"}, CallIds, FewTexts)

\* fault: kwargs.setdefault('openai_api_base', ...), the caller's value wins
SetDefaultBase(kw) == kw @@ ("openai_api_base" :> DeepSeekBase)

\* kwargs['openai_api_base'] = 'https://api.deepseek.com'
OverrideBase(kw) == ("openai_api_base" :> DeepSeekBase) @@ kw

\* DeepSeekChatOpenAI.__init__: the keywords go on to ChatOpenAI.__init__
DeepSeekInit ==
    /\ apc = "new"
    /\ config' = OverrideBase(kwargs)
    /\ apc' = "ready"
    /\ UNCHANGED <<kwargs, model_class, calls, texts, pc, input_prompt,
                   properties, prompt, response, response_json, result, error,
                   invoked, returned, trail>>

\* with_structured_output(model_class): returns structured_output_chain
WithStructuredOutput(cls) ==
    /\ apc = "ready"
    /\ model_class' = cls
    /\ apc' = "bound"
    /\ UNCHANGED <<kwargs, config, calls, texts, pc, input_prompt, properties,
                   prompt, response, response_json, result, error, invoked,
                   returned, trail>>

\* ChatPromptTemplate.from_template(...).invoke({"properties", "input"})
TemplateInvoke(props, input) ==
    "Please output the following information in JSON format. Only extract the following properties, noting the value constraints for each field:\n\n"
    \o props \o "\n\nContent:\n\n" \o input
    \o "\n\nPlease strictly follow the JSON format above, include only the specified fields with correct types, and ensure enum field values are within the allowed range. No code block wrapping needed."

\* structured_output_chain(input_prompt), up to the built prompt
BuildPrompt(c, input) ==
    /\ apc = "bound"
    /\ c \in calls
    /\ pc[c] = "idle"
    /\ input_prompt' = [input_prompt EXCEPT ![c] = input]
    /\ properties' = [properties EXCEPT ![c] = GetModelProperties(model_class)]
    /\ prompt' = [prompt EXCEPT
                    ![c] = TemplateInvoke(GetModelProperties(model_class), input)]
    /\ pc' = [pc EXCEPT ![c] = "prompted"]
    /\ UNCHANGED <<kwargs, config, apc, model_class, calls, texts, response,
                   response_json, result, error, invoked, returned, trail>>

\* fault: the exception is caught and the client is asked again
RaiseRetry(c, err) ==
    /\ pc' = [pc EXCEPT ![c] = "prompted"]
    /\ error' = [error EXCEPT ![c] = err]

\* an exception leaves structured_output_chain: nothing catches it
Raise(c, err) ==
    /\ pc' = [pc EXCEPT ![c] = "failed"]
    /\ error' = [error EXCEPT ![c] = err]

\* fault: the response is kept on the adapter, where every call that has
\* not decoded yet reads it
InvokeShared(c) ==
    /\ c \in calls
    /\ pc[c] = "prompted"
    /\ invoked' = [invoked EXCEPT ![c] = @ + 1]
    /\ \E content \in texts :
          /\ response' = [d \in CallIds |->
                            IF d = c \/ pc[d] = "responded" THEN Message(content)
                            ELSE response[d]]
          /\ returned' = [returned EXCEPT ![c] = Message(content)]
          /\ pc' = [pc EXCEPT ![c] = "responded"]
    /\ UNCHANGED <<kwargs, config, apc, model_class, calls, texts, input_prompt,
                   properties, prompt, response_json, result, error, trail>>

\* response = self.invoke(prompt)
Invoke(c) ==
    /\ c \in calls
    /\ pc[c] = "prompted"
    /\ invoked' = [invoked EXCEPT ![c] = @ + 1]
    /\ \/ \E content \in texts :
            /\ response' = [response EXCEPT ![c] = Message(content)]
            /\ returned' = [returned EXCEPT ![c] = Message(content)]
            /\ pc' = [pc EXCEPT ![c] = "responded"]
            /\ UNCHANGED error
       \/ /\ Raise(c, "APIConnectionError")
          /\ returned' = [returned EXCEPT ![c] = Raised("APIConnectionError")]
          /\ UNCHANGED response
    /\ UNCHANGED <<kwargs, config, apc, model_class, calls, texts, input_prompt,
                   properties, prompt, response_json, result, trail>>

\* fault: the parse error is caught and an empty object stands in
DecodeFallback(c) ==
    /\ c \in calls
    /\ pc[c] = "responded"
    /\ LET loaded == JsonLoads(response[c].content) IN
       response_json' =
           [response_json EXCEPT ![c] = IF loaded.ok THEN loaded.v ELSE PyDict(<<>>)]
    /\ pc' = [pc EXCEPT ![c] = "decoded"]
    /\ UNCHANGED <<kwargs, config, apc, model_class, calls, texts, input_prompt,
                   properties, prompt, response, result, error, invoked,
                   returned, trail>>

\* response_json = json.loads(response.content)
Decode(c) ==
    /\ c \in calls
    /\ pc[c] = "responded"
    /\ LET loaded == JsonLoads(response[c].content) IN
       IF loaded.ok
       THEN /\ response_json' = [response_json EXCEPT ![c] = loaded.v]
            /\ pc' = [pc EXCEPT ![c] = "decoded"]
            /\ UNCHANGED error
       ELSE /\ Raise(c, "JSONDecodeError")
            /\ UNCHANGED response_json
    /\ UNCHANGED <<kwargs, config, apc, model_class, calls, texts, input_prompt,
                   properties, prompt, response, result, invoked, returned,
                   trail>>

\* return store_as_pydantic(response_json, model_class)
Store(c) ==
    /\ c \in calls
    /\ pc[c] = "decoded"
    /\ LET stored == StoreAsPydantic(response_json[c], model_class) IN
       /\ trail' = [trail EXCEPT ![c] = stored.log]
       /\ IF stored.ok
          THEN /\ result' = [result EXCEPT ![c] = stored.obj]
               /\ pc' = [pc EXCEPT ![c] = "returned"]
               /\ UNCHANGED error
          ELSE /\ Raise(c, stored.err)
               /\ UNCHANGED result
    /\ UNCHANGED <<kwargs, config, apc, model_class, calls, texts, input_prompt,
                   properties, prompt, response, response_json, invoked,
                   returned>>

Next ==
    \/ DeepSeekInit
    \/ \E cls \in ModelClasses : WithStructuredOutput(cls)
    \/ \E c \in CallIds, input \in InputTexts : BuildPrompt(c, input)
    \/ \E c \in CallIds : Invoke(c)
    \/ \E c \in CallIds : Decode(c)
    \/ \E c \in CallIds : Store(c)

Spec == Init /\ [][Next]_vars

SpecPar == InitPar /\ [][Next]_vars

(***************************************************************************)
(* Properties.                                                             *)
(***************************************************************************)
Started(c) == pc[c] # "idle"
Finished(c) == pc[c] \in {"returned", "failed"}

\* C1: once the constructor has run, the configuration handed to the
\* underlying client has openai_api_base equal to the DeepSeek endpoint,
\* whatever the caller passed.
C1_BaseIsDeepSeek ==
    apc # "new" =>
        /\ "openai_api_base" \in DOMAIN config
        /\ config["openai_api_base"] = DeepSeekBase

\* the caller passed another base address and the constructor has run
C1_Witness ==
    /\ apc # "new"
    /\ "openai_api_base" \in DOMAIN kwargs
    /\ kwargs["openai_api_base"] # DeepSeekBase
    /\ DOMAIN config = DOMAIN kwargs

\* C2: a call whose response text is not valid JSON ends with the parse
\* error of json.loads: it never gets past decoding, returns no result, and
\* store_as_pydantic (hence the construction of the shape) never runs.
C2_InvalidJsonPropagates ==
    \A c \in CallIds :
        (response[c].t = "message" /\ response[c].content \in InvalidTexts) =>
            /\ pc[c] \in {"responded", "failed"}
            /\ pc[c] = "failed" => error[c] = "JSONDecodeError"
            /\ result[c] = Unset
            /\ response_json[c] = Unset
            /\ trail[c] = <<>>

\* a call answered with prose around the object has failed
C2_Witness ==
    \E c \in CallIds :
        /\ pc[c] = "failed"
        /\ error[c] = "JSONDecodeError"
        /\ response[c].t = "message"
        /\ response[c].content \in InvalidTexts
        /\ Len(response[c].content) > Len(PersonNoAge)

(***************************************************************************)
(* The populator, read off the invocations of store_as_pydantic a call     *)
(* made (trail).                                                           *)
(***************************************************************************)
Entries(c) == {trail[c][k] : k \in 1..Len(trail[c])}
FieldsOf(cls) == {Shapes[cls][i] : i \in 1..Len(Shapes[cls])}

\* the response has no key of this name, or has it with null
AbsentOrNull(data, n) ==
    \/ Name(n) \notin DOMAIN data.d
    \/ data.d[Name(n)].t = "none"

\* C3 as stated: in a returned result (at any depth) a field whose key is
\* absent or null is unset and holds no value, default or other.
C3_AbsentFieldHoldsNothing ==
    \A c \in CallIds :
        pc[c] = "returned" =>
            \A e \in Entries(c) : \A f \in FieldsOf(e.cls) :
                AbsentOrNull(e.data, f.name) =>
                    /\ f.name \notin e.made.obj.fields_set
                    /\ e.made.obj.values[f.name] = None

\* C3 as amended: a field whose key is absent or null is left out of the
\* values collected for the construction; in the constructed object it is
\* not among the fields set and holds the default the shape declares for it.
C3_AbsentFieldNotCollected ==
    \A c \in CallIds : \A e \in Entries(c) : \A f \in FieldsOf(e.cls) :
        AbsentOrNull(e.data, f.name) =>
            /\ f.name \notin DOMAIN e.parsed_data
            /\ e.made.ok =>
                  /\ f.name \notin e.made.obj.fields_set
                  /\ e.made.obj.values[f.name] = f.default

\* a ticket answered with null priority and note is returned with the
\* declared defaults 0 and ""
C3_Witness ==
    \E c \in CallIds :
        /\ pc[c] = "returned"
        /\ model_class = "Ticket"
        /\ response[c].content = TicketNulls
        /\ result[c].values["priority"] = PyInt(0)
        /\ result[c].fields_set = {"status"}

\* C4: a field annotated with a model class whose key is present and not
\* null is collected as an instance of that class, made by an invocation of
\* store_as_pydantic on the nested value (decoded first when it is a
\* string); this holds for every invocation, so at every depth, and the
\* constructed object holds that instance.
C4_NestedShapesRecurse ==
    \A c \in CallIds :
        /\ \A k \in 1..Len(trail[c]) :
              LET e == trail[c][k] IN
              \A f \in FieldsOf(e.cls) :
                  (f.type \in ModelClasses /\ ~AbsentOrNull(e.data, f.name)) =>
                      LET v == e.data.d[Name(f.name)]
                          src == IF v.t = "str" THEN JsonLoads(v.s)
                                 ELSE [ok |-> TRUE, v |-> v]
                      IN /\ src.ok
                         /\ f.name \in DOMAIN e.parsed_data
                         /\ e.parsed_data[f.name].t = "model"
                         /\ e.parsed_data[f.name].cls = f.type
                         /\ \E j \in 1..(k - 1) :
                               /\ trail[c][j].cls = f.type
                               /\ trail[c][j].data = src.v
                               /\ trail[c][j].made.ok
                               /\ trail[c][j].made.obj = e.parsed_data[f.name]
                         /\ e.made.ok =>
                               e.made.obj.values[f.name] = e.parsed_data[f.name]
        /\ pc[c] = "returned" =>
              /\ trail[c] # <<>>
              /\ trail[c][Len(trail[c])].cls = model_class
              /\ trail[c][Len(trail[c])].made.obj = result[c]

\* a person is returned whose address is an Address whose geo is a Geo
C4_Witness ==
    \E c \in CallIds :
        /\ pc[c] = "returned"
        /\ model_class = "Person"
        /\ result[c].values["address"].t = "model"
        /\ result[c].values["address"].cls = "Address"
        /\ result[c].values["address"].values["geo"].t = "model"
        /\ result[c].values["address"].values["geo"].values["lat"] = PyInt(48)

\* C5: every collected value sits under the name of a declared field and
\* comes from the response's key of that name; a value of a primitive field
\* is the response's value itself.
C5_CollectedFromSameNamedKeys ==
    \A c \in CallIds : \A e \in Entries(c) :
        \A n \in DOMAIN e.parsed_data :
            /\ \E f \in FieldsOf(e.cls) :
                  /\ f.name = n
                  /\ f.type \notin ModelClasses =>
                        e.parsed_data[n] = e.data.d[Name(n)]
            /\ ~AbsentOrNull(e.data, n)

\* the string "30" is collected as a string for the int field age (the
\* construction, not the populator, makes it 30), and the key nickname of
\* another response is collected nowhere
C5_Witness ==
    \E c \in CallIds :
        /\ pc[c] = "returned"
        /\ model_class = "Person"
        /\ response[c].content = PersonStringAge
        /\ trail[c][1].parsed_data["age"] = PyStr(<<N(30)>>)
        /\ result[c].values["age"] = PyInt(30)

(***************************************************************************)
(* The describer.                                                          *)
(***************************************************************************)
\* the line the describer owes a field: name, then the description or, when
\* there is none, the name again, then the allowed values when it has any
ExpectedLine(f) ==
    f.name \o ": "
    \o (IF f.description.t = "str" /\ f.description.text # ""
        THEN f.description.text ELSE f.name)
    \o (IF f.json_schema_extra.t = "dict" /\ "enum" \in DOMAIN f.json_schema_extra.d
        THEN " (must be one of: " \o ReprList(f.json_schema_extra.d["enum"]) \o ")"
        ELSE "")

ExpectedListing(cls) ==
    JoinLines([i \in 1..Len(Shapes[cls]) |-> ExpectedLine(Shapes[cls][i])], 1)

\* C6: from the moment a call has built its prompt, and whatever response
\* arrives later, its field listing is one line per declared field, in
\* declaration order, each "name: description" (the name when there is no
\* description) with the allowed values appended exactly for the fields
\* that carry an enum; the prompt embeds that listing.
C6_ListingInDeclaredOrder ==
    \A c \in CallIds :
        Started(c) =>
            /\ properties[c] = ExpectedListing(model_class)
            /\ prompt[c] = TemplateInvoke(ExpectedListing(model_class), input_prompt[c])

\* a ticket call has returned; its listing names status with its allowed
\* values, then priority and note under their own names
C6_Witness ==
    \E c \in CallIds :
        /\ pc[c] = "returned"
        /\ model_class = "Ticket"
        /\ response[c].content = TicketNulls
        /\ properties[c] =
              "status: ticket status (must be one of: ['ok', 'fail'])\npriority: priority\nnote: note (must be one of: [])"

(***************************************************************************)
(* Failures.                                                               *)
(***************************************************************************)
\* the decoded response is an object that lacks a required field of the
\* shape, or has it with null
RequiredMissing(c) ==
    /\ response_json[c].t = "dict"
    /\ \E f \in FieldsOf(model_class) :
          f.required /\ AbsentOrNull(response_json[c], f.name)

\* the top-level invocation of store_as_pydantic ran its loop to the end
TopCollected(c) ==
    /\ trail[c] # <<>>
    /\ trail[c][Len(trail[c])].cls = model_class
    /\ trail[c][Len(trail[c])].data = response_json[c]

\* C7 as stated: when a required field's key is absent or null, the call
\* ends with the shape-construction error.
C7_RequiredMissingIsValidationError ==
    \A c \in CallIds :
        (RequiredMissing(c) /\ Finished(c)) =>
            pc[c] = "failed" /\ error[c] = "ValidationError"

\* C7 as amended: when a required field's key is absent or null, the call
\* returns no result and the populator collects nothing for the field; the
\* call ends with the shape-construction error whenever the populator gets
\* as far as constructing the shape, and otherwise with the error that
\* stopped the population first (here: a nested-shape field of the same
\* response whose population failed).
C7_RequiredMissingFails ==
    \A c \in CallIds :
        RequiredMissing(c) =>
            /\ pc[c] # "returned"
            /\ result[c] = Unset
            /\ pc[c] = "failed" =>
                  IF TopCollected(c)
                  THEN /\ error[c] = "ValidationError"
                       /\ \A f \in FieldsOf(model_class) :
                             AbsentOrNull(response_json[c], f.name) =>
                                 f.name \notin DOMAIN trail[c][Len(trail[c])].parsed_data
                  ELSE /\ error[c] \in {"AttributeError", "JSONDecodeError",
                                        "ValidationError"}
                       /\ \E g \in FieldsOf(model_class) :
                             /\ g.type \in ModelClasses
                             /\ ~AbsentOrNull(response_json[c], g.name)

\* a person answered without a name has failed in the construction
C7_Witness ==
    \E c \in CallIds :
        /\ pc[c] = "failed"
        /\ error[c] = "ValidationError"
        /\ model_class = "Person"
        /\ response[c].content = PersonNoName

C8_Inv ==
    \A c \in CallIds :
        /\ invoked[c] <= 1
        /\ pc[c] \in {"idle", "prompted"} =>
              invoked[c] = 0 /\ response_json[c] = Unset /\ trail[c] = <<>>
        /\ pc[c] = "prompted" => prompt[c] # ""
        /\ pc[c] \in {"responded", "decoded", "returned", "failed"} =>
              invoked[c] = 1 /\ prompt[c] # ""
        /\ pc[c] = "failed" => result[c] = Unset /\ error[c] # ""

C8_Step ==
    \A c \in CallIds :
        /\ invoked'[c] >= invoked[c]
        /\ Finished(c) =>
              /\ pc'[c] = pc[c]
              /\ invoked'[c] = invoked[c]
              /\ result'[c] = result[c]
              /\ error'[c] = error[c]

\* C8: a call invokes the client exactly once, after its prompt is built
\* and before anything is parsed; a call that failed (in the client, in
\* json.loads or in the population and construction) has no result, stays
\* failed and never invokes the client again.
C8_SinglePass == []C8_Inv /\ [][C8_Step]_vars

\* a call failed in the client after its one invocation
C8_Witness ==
    \E c \in CallIds :
        /\ pc[c] = "failed"
        /\ error[c] = "APIConnectionError"
        /\ invoked[c] = 1
        /\ returned[c] = Raised("APIConnectionError")

(***************************************************************************)
(* Several calls.                                                          *)
(***************************************************************************)
\* what one call, run alone, makes of what the client gave it
Alone(cls, ret) ==
    IF ret.t = "raised" THEN [ok |-> FALSE, err |-> ret.err]
    ELSE LET loaded == JsonLoads(ret.content) IN
         IF ~loaded.ok THEN [ok |-> FALSE, err |-> "JSONDecodeError"]
         ELSE LET stored == StoreAsPydantic(loaded.v, cls) IN
              IF stored.ok THEN [ok |-> TRUE, obj |-> stored.obj]
              ELSE [ok |-> FALSE, err |-> stored.err]

Outcome(c) ==
    IF pc[c] = "returned" THEN [ok |-> TRUE, obj |-> result[c]]
    ELSE [ok |-> FALSE, err |-> error[c]]

Frame(c) ==
    <<pc[c], input_prompt[c], properties[c], prompt[c], response[c],
      response_json[c], result[c], error[c], invoked[c], trail[c]>>

C9_Inv ==
    \A c \in CallIds :
        /\ Started(c) =>
              prompt[c] = TemplateInvoke(GetModelProperties(model_class),
                                         input_prompt[c])
        /\ Finished(c) => Outcome(c) = Alone(model_class, returned[c])

C9_Step ==
    \A c \in CallIds :
        Frame(c)' # Frame(c) =>
            /\ \A d \in CallIds \ {c} : Frame(d)' = Frame(d)
            /\ UNCHANGED <<kwargs, config, apc, model_class>>

\* C9: with several calls of the returned function in flight, every step of
\* a call changes that call's locals only and leaves the adapter alone, and
\* every finished call has the outcome that its own input and the response
\* given to it produce when the call runs alone.
C9_CallsIndependent == []C9_Inv /\ [][C9_Step]_vars

\* two calls in flight at once, with different inputs and responses
C9_Witness ==
    \E c, d \in CallIds :
        /\ pc[c] = "decoded"
        /\ pc[d] = "responded"
        /\ response[c].content # response[d].content
        /\ input_prompt[c] # input_prompt[d]

(***************************************************************************)
(* What a result presupposes of the response text.                         *)
(***************************************************************************)
\* the text is a JSON object, or a JSON string whose content is one
DecodesToObject(text) ==
    LET first == JsonLoads(text) IN
    /\ first.ok
    /\ \/ first.v.t = "dict"
       \/ /\ first.v.t = "str"
          /\ JsonLoads(first.v.s).ok
          /\ JsonLoads(first.v.s).v.t = "dict"

=============================================================================
